---- MODULE Spec2Model ----
(***************************************************************************)
(* Model of the resilience layer of the Leave Policy Assistant:            *)
(*   app/circuit_breaker.py   CircuitState, CircuitBreaker, circuit_breaker *)
(*   app/snowflake_client.py  SnowflakeClient (four breaker-bound methods)  *)
(*                                                                         *)
(* Time is time.time() in whole seconds.  A breaker is a record holding    *)
(* the fields that CircuitBreaker.__init__ sets.  The wrapped function is  *)
(* an input of every call: what it returns or raises and how long it runs. *)
(***************************************************************************)
EXTENDS Integers, Sequences, FiniteSets, TLC

VARIABLES
    cb,       \* the CircuitBreaker object under test
    now,      \* the value time.time() returns
    hist,     \* observation of the latest call(): its inputs, what it did, its result
    run,      \* classified failures in a row counted from a fresh (CLOSED, 0) breaker
    pc,       \* concurrent callers: the line of call() each thread is at
    loc,      \* concurrent callers: each thread's local values
    increments,   \* concurrent callers: executions of `failure_count += 1` since the last reset
    breakers,   \* SnowflakeClient: the breaker the decorator bound to each method
    connected,  \* SnowflakeClient.connected
    snow,       \* SnowflakeClient: observation of the latest method call
    since,      \* what has happened since the latest successful probe
    heap,       \* decorator: the CircuitBreaker objects constructed so far, by identity
    wrappers,   \* decorator: per function, the wrapper that replaced it
    bound,      \* decorator: per function, classified failures since its latest reset
    rpc,        \* _generate_response: where the agent is in it
    attempt,    \* _generate_response: the loop variable of the retry loop
    response,   \* _generate_response: the local variable the retry loop assigns
    retry,      \* _generate_response: observation of the latest run
    cfails,     \* completion(...): failures in a row of the calls made so far, up to a cap
    limit,      \* the retry loop on its own: the value of its local max_retries
    gauges,     \* metrics.py: the value of CIRCUIT_BREAKER_STATE per service label
    recorded,   \* metrics.py: the state last passed to record_circuit_breaker_state per service
    sessions,   \* LeaveAssistantAgent.sessions: the history of each stored session
    reply,      \* main.py: observation of the latest request on a session
    after,      \* callbacks.py: the counters of the AfterModelCallback object
    fed         \* callbacks.py: observation of the invocations of AfterModelCallback so far

seqVars == <<hist, run>>
concVars == <<pc, loc, increments>>
snowVars == <<breakers, connected, snow>>
scenVars == <<since>>
bindVars == <<heap, wrappers, bound>>
retryVars == <<rpc, attempt, response, retry, cfails>>
loopVars == <<limit>>
metricsVars == <<gauges, recorded>>
sessionVars == <<sessions, reply>>
callbackVars == <<after, fed>>
laterVars == <<loopVars, metricsVars, sessionVars, callbackVars>>

\* what the actions of each specification leave alone
seqFrame == <<concVars, snowVars, scenVars, bindVars, retryVars, laterVars>>
concFrame == <<seqVars, snowVars, scenVars, bindVars, retryVars, laterVars>>
snowFrame == <<cb, seqVars, concVars, scenVars, bindVars, retryVars, laterVars>>
scenFrame == <<concVars, snowVars, bindVars, retryVars, laterVars>>
bindFrame == <<cb, seqVars, concVars, snowVars, scenVars, retryVars, laterVars>>
retryFrame == <<cb, seqVars, concVars, snowVars, scenVars, bindVars, laterVars>>
loopFrame == <<cb, seqVars, concVars, snowVars, scenVars, bindVars, cfails, metricsVars, sessionVars,
               callbackVars>>
metricsFrame == <<cb, now, seqVars, concVars, snowVars, scenVars, bindVars, retryVars, loopVars, sessionVars,
                  callbackVars>>
sessionFrame == <<cb, now, seqVars, concVars, snowVars, scenVars, bindVars, retryVars, loopVars, metricsVars,
                  callbackVars>>
callbackFrame == <<cb, now, seqVars, concVars, snowVars, scenVars, bindVars, retryVars, loopVars, metricsVars,
                   sessionVars>>
vars == <<cb, now, hist, run, pc, loc, increments, breakers, connected, snow, since,
          heap, wrappers, bound, rpc, attempt, response, retry, cfails, limit,
          gauges, recorded, sessions, reply, after, fed>>

-----------------------------------------------------------------------------
(* Bounds of the model *)

MaxThreshold == 2
MaxTimeout == 2
MaxTime == 5
MaxDuration == 1
MaxFailures == 4
NThreads == 2
MaxSnowTime == 60
MaxSnowFailures == 4
SnowTickStep == 30
ScenMaxTime == 32
BindMaxTime == 2
RetryMaxTime == 12
MaxCompletionFailures == 6
MaxRetries == 3
MaxHistory == 5
MaxCalls == 4
MaxTokens == 2

-----------------------------------------------------------------------------
(* circuit_breaker.py: CircuitState *)

CLOSED == "closed"
OPEN == "open"
HALF_OPEN == "half_open"

CircuitState == {CLOSED, OPEN, HALF_OPEN}

\* Python's None for last_failure_time; every real timestamp is >= 0
None == -1

-----------------------------------------------------------------------------
(* Exceptions.  An exception object is [type, msg]; `raise` without         *)
(* arguments re-raises the very same object.                                *)

\* the classes an operation may raise; all but KeyboardInterrupt derive from Exception
ExcTypes == {"ConnectionError", "ValueError", "KeyboardInterrupt"}

\* isinstance(e, cls) for the classes above
IsInstance(type, cls) ==
    \/ type = cls
    \/ cls = "Exception" /\ type \in {"ConnectionError", "ValueError", "RateLimitError"}

\* the exception the breaker raises itself while OPEN: a plain Exception
BreakerOpenError(b) ==
    [type |-> "Exception", msg |-> <<"Circuit breaker", b.name, "is OPEN">>]

\* float - NoneType, should last_failure_time be None on an OPEN breaker
NoneTypeError == [type |-> "TypeError", msg |-> <<"unsupported operand">>]

OpFailure(type) == [type |-> type, msg |-> <<"operation failed">>]

Values == {"v1", "v2"}

Returned(v) == [kind |-> "return", value |-> v]
Raised(e) == [kind |-> "raise", exc |-> e]

\* what the wrapped function may do when it is invoked
Outcomes == {Returned(v) : v \in Values} \cup {Raised(OpFailure(t)) : t \in ExcTypes}

-----------------------------------------------------------------------------
(* circuit_breaker.py: CircuitBreaker *)

NewBreaker(failure_threshold, timeout, expected_exception, name) ==
    [ failure_threshold |-> failure_threshold,
      timeout |-> timeout,
      expected_exception |-> expected_exception,
      name |-> name,
      failure_count |-> 0,
      last_failure_time |-> None,
      state |-> CLOSED ]

\* slips of the elapsed-time test: the failure time left out; > for >=
TimedOutNoBase(b, t) == t >= b.timeout

TimedOutStrict(b, t) == t - b.last_failure_time > b.timeout

\* slip of the elapsed-time test: the operands of the subtraction swapped
TimedOutReversed(b, t) == b.last_failure_time - t >= b.timeout

\* line 79: time.time() - self.last_failure_time >= self.timeout
TimedOut(b, t) == t - b.last_failure_time >= b.timeout

\* slips of _handle_failure: > for >=; the timestamp written only the first time
HandleFailureStrict(b, t) ==
    LET counted == [b EXCEPT !.failure_count = b.failure_count + 1,
                             !.last_failure_time = t]
    IN  IF counted.failure_count > counted.failure_threshold
        THEN [counted EXCEPT !.state = OPEN]
        ELSE counted

HandleFailureKeepStamp(b, t) ==
    LET counted == [b EXCEPT !.failure_count = b.failure_count + 1,
                             !.last_failure_time =
                                 IF b.last_failure_time = None THEN t ELSE b.last_failure_time]
    IN  IF counted.failure_count >= counted.failure_threshold
        THEN [counted EXCEPT !.state = OPEN]
        ELSE counted

\* slip of _handle_failure: the circuit opened on any failure
HandleFailureEager(b, t) ==
    [b EXCEPT !.failure_count = b.failure_count + 1, !.last_failure_time = t, !.state = OPEN]

\* slip of _handle_failure: the count held once it has reached the threshold
HandleFailureSaturating(b, t) ==
    LET counted == [b EXCEPT !.failure_count =
                                 IF b.failure_count >= b.failure_threshold
                                 THEN b.failure_count ELSE b.failure_count + 1,
                             !.last_failure_time = t]
    IN  IF counted.failure_count >= counted.failure_threshold
        THEN [counted EXCEPT !.state = OPEN]
        ELSE counted

\* lines 107-122
HandleFailure(b, t) ==
    LET counted == [b EXCEPT !.failure_count = b.failure_count + 1,
                             !.last_failure_time = t]
    IN  IF counted.failure_count >= counted.failure_threshold
        THEN [counted EXCEPT !.state = OPEN]
        ELSE counted

\* slip of _reset: the timestamp kept
ResetKeepStamp(b) ==
    [b EXCEPT !.failure_count = 0, !.state = CLOSED]

\* slip of _reset: the counter kept
ResetKeepCount(b) ==
    [b EXCEPT !.last_failure_time = None, !.state = CLOSED]

\* lines 124-128
Reset(b) ==
    [b EXCEPT !.failure_count = 0, !.last_failure_time = None, !.state = CLOSED]

\* slip of the gate: a rejection stamped as a failure
GateRestamp(b, t) ==
    IF b.state = OPEN
    THEN IF b.last_failure_time = None
         THEN [verdict |-> "error", b |-> b, exc |-> NoneTypeError]
         ELSE IF TimedOut(b, t)
         THEN [verdict |-> "admit", b |-> [b EXCEPT !.state = HALF_OPEN], exc |-> NoneTypeError]
         ELSE [verdict |-> "reject", b |-> [b EXCEPT !.last_failure_time = t],
               exc |-> BreakerOpenError(b)]
    ELSE [verdict |-> "admit", b |-> b, exc |-> NoneTypeError]

\* lines 77-86: the gate in front of the function
\* verdict "admit": go on to line 88 with breaker b; else raise exc
Gate(b, t) ==
    IF b.state = OPEN
    THEN IF b.last_failure_time = None
         THEN [verdict |-> "error", b |-> b, exc |-> NoneTypeError]
         ELSE IF TimedOut(b, t)
         THEN [verdict |-> "admit", b |-> [b EXCEPT !.state = HALF_OPEN], exc |-> NoneTypeError]
         ELSE [verdict |-> "reject", b |-> b, exc |-> BreakerOpenError(b)]
    ELSE [verdict |-> "admit", b |-> b, exc |-> NoneTypeError]

\* slip of the success path: reset on every success
OnReturnAlwaysReset(b, v) ==
    [ b |-> Reset(b), result |-> Returned(v) ]

\* lines 92-97: the function returned v
OnReturn(b, v) ==
    [ b |-> IF b.state = HALF_OPEN THEN Reset(b) ELSE b,
      result |-> Returned(v) ]

\* slip of the except clause: a new Exception raised in place of the caught one
OnRaiseWrapped(b, e, t) ==
    [ b |-> IF IsInstance(e.type, b.expected_exception) THEN HandleFailure(b, t) ELSE b,
      result |-> Raised([type |-> "Exception", msg |-> e.msg]) ]

\* lines 99-105: the function raised e at time t
OnRaise(b, e, t) ==
    [ b |-> IF IsInstance(e.type, b.expected_exception) THEN HandleFailure(b, t) ELSE b,
      result |-> Raised(e) ]

\* call(func): func does `out` after running for d seconds
\* invoked: how many times func was called; at_invoke: self.state when it was
CallResult(b, t, out, d) ==
    LET g == Gate(b, t) IN
    IF g.verdict # "admit"
    THEN [b |-> g.b, result |-> Raised(g.exc), invoked |-> 0, at_invoke |-> "none", end |-> t]
    ELSE LET r == IF out.kind = "return"
                  THEN OnReturn(g.b, out.value)
                  ELSE OnRaise(g.b, out.exc, t + d)
         IN [b |-> r.b, result |-> r.result, invoked |-> 1, at_invoke |-> g.b.state,
             end |-> t + d]

\* slip of get_state: the count reported as the threshold
GetStateSwapped(b) ==
    [ name |-> b.name, state |-> b.state, failure_count |-> b.failure_count,
      threshold |-> b.failure_count, last_failure |-> b.last_failure_time ]

\* lines 130-138
GetState(b) ==
    [ name |-> b.name, state |-> b.state, failure_count |-> b.failure_count,
      threshold |-> b.failure_threshold, last_failure |-> b.last_failure_time ]

-----------------------------------------------------------------------------
(* One breaker, one caller at a time *)

NoCall == [kind |-> "none"]

\* the observation of one call(): the breaker and clock before, the input, the effect
Observe(b, t, out, d, r, flip) ==
    [ kind |-> "call", pre |-> b, at |-> t, out |-> out,
      invoked |-> r.invoked, at_invoke |-> r.at_invoke, result |-> r.result,
      end |-> r.end, flip |-> flip ]

\* the run of classified failures after a call
NextRun(b, r, out) ==
    IF r.invoked = 1 /\ out.kind = "raise" /\ IsInstance(out.exc.type, b.expected_exception)
    THEN IF b.state = CLOSED /\ b.failure_count = 0 THEN 1
         ELSE IF run > 0 THEN run + 1 ELSE 0
    ELSE 0

Threads == 1..NThreads

NoLocals == [failure_count |-> 0, admitted |-> "none"]

\* no thread is inside call()
ConcIdle ==
    /\ pc = [t \in Threads |-> "idle"]
    /\ loc = [t \in Threads |-> NoLocals]
    /\ increments = 0

-----------------------------------------------------------------------------
(* app/snowflake_client.py: SnowflakeClient.  Each decorated method owns one *)
(* breaker, made when the class body is executed.                            *)

CONNECT == "snowflake_connection"
QUERY_EMPLOYEE == "snowflake_query_employee"
QUERY_DEPT == "snowflake_query_employees_by_dept"
UPDATE_LEAVE == "snowflake_update_leave_balance"

QueryOps == {QUERY_EMPLOYEE, QUERY_DEPT, UPDATE_LEAVE}
SnowOps == {CONNECT} \cup QueryOps

\* the @circuit_breaker(...) lines above the four methods
SnowBreakers ==
    [ op \in SnowOps |->
        IF op = CONNECT
        THEN NewBreaker(3, 30, "Exception", op)
        ELSE NewBreaker(5, 60, "Exception", op) ]

\* no SnowflakeClient method has been called
SnowIdle ==
    /\ breakers = SnowBreakers
    /\ connected = FALSE
    /\ snow = NoCall

\* no call() on the breaker under test yet
SeqIdle ==
    /\ hist = NoCall
    /\ run = 0

\* no probe has succeeded yet
NoProbe == [probed |-> FALSE, failures |-> 0, returned |-> FALSE, unclassified |-> FALSE]

ScenIdle == since = NoProbe

\* the functions a module defines and may decorate
FuncNames == {"connect", "query_employee_data"}

\* a function that @circuit_breaker has not replaced
Undecorated == [decorated |-> FALSE, breaker |-> 0, circuit_breaker |-> 0]

\* no function has been decorated yet
BindIdle ==
    /\ heap = <<>>
    /\ wrappers = [f \in FuncNames |-> Undecorated]
    /\ bound = [f \in FuncNames |-> 0]

\* the value of `response` before the retry loop has assigned it
NoResponse == [content |-> "unbound", tool_calls |-> FALSE]

\* the observation of a run of _generate_response that has just been entered at time t
NewRun(t) ==
    [ calls |-> 0, transient |-> 0, sleeps |-> <<>>, loop |-> NoCall,
      followups |-> 0, follow |-> NoCall, result |-> NoCall, start |-> t ]

\* the agent is not inside _generate_response and has not been
RetryIdle ==
    /\ rpc = "idle"
    /\ attempt = 0
    /\ response = NoResponse
    /\ retry = NewRun(0)
    /\ cfails = 0

\* the services whose breaker state is exported
Services == {"snowflake", "litellm", "database"}

\* a gauge child that labels(service=...) has not created yet
NoGauge == "unset"

\* the session ids clients use
SessionIds == {"s1", "s2"}

\* agent.py line 73: self.sessions = {}
NoSessions == [i \in {} |-> <<>>]

\* callbacks.py lines 165-169: AfterModelCallback.__init__
NewAfterModelCallback ==
    [total_calls |-> 0, response_count |-> 0, error_count |-> 0, total_tokens |-> 0]

\* AfterModelCallback has not been invoked
NotFed == [invocations |-> 0, tokens |-> 0, raised |-> 0, latest |-> NoCall]

\* nothing recorded, no session stored, the retry loop with the program's max_retries
LaterIdle ==
    /\ after = NewAfterModelCallback
    /\ fed = NotFed
    /\ limit = 3
    /\ gauges = [sv \in Services |-> NoGauge]
    /\ recorded = [sv \in Services |-> "none"]
    /\ sessions = NoSessions
    /\ reply = NoCall

\* the breakers a test may construct
TestBreakers ==
    { NewBreaker(th, to, ex, "CircuitBreaker") :
        th \in 1..MaxThreshold, to \in 0..MaxTimeout, ex \in {"Exception", "ConnectionError"} }

Init ==
    /\ cb \in TestBreakers
    /\ now = 0
    /\ SeqIdle
    /\ ConcIdle
    /\ SnowIdle
    /\ ScenIdle
    /\ BindIdle
    /\ RetryIdle
    /\ LaterIdle

Call(out, d) ==
    LET r == CallResult(cb, now, out, d) IN
    /\ r.end <= MaxTime
    /\ r.b.failure_count <= MaxFailures
    /\ cb' = r.b
    /\ now' = r.end
    /\ hist' = Observe(cb, now, out, d, r, IF hist.kind = "call" THEN 1 - hist.flip ELSE 0)
    /\ run' = NextRun(cb, r, out)
    /\ UNCHANGED seqFrame

Tick ==
    /\ now < MaxTime
    /\ now' = now + 1
    /\ UNCHANGED <<cb, hist, run>>
    /\ UNCHANGED seqFrame

Next ==
    \/ \E out \in Outcomes, d \in 0..MaxDuration : Call(out, d)
    \/ Tick

Spec == Init /\ [][Next]_vars

-----------------------------------------------------------------------------
(* One breaker, several threads inside call() at once.  CircuitBreaker takes *)
(* no lock, so threads interleave between any two accesses to the breaker's  *)
(* fields; a step below is one access together with the thread-local code    *)
(* around it.  The function itself runs from the step that admits the call   *)
(* to FuncReturns / FuncRaises.                                              *)

Goto(t, label) == pc' = [pc EXCEPT ![t] = label]

\* line 77 reads self.state; when it is not OPEN the function is called (line 90)
Enter(t) ==
    /\ pc[t] = "idle"
    /\ IF cb.state = OPEN
       THEN /\ Goto(t, "timeout")
            /\ UNCHANGED loc
       ELSE /\ Goto(t, "running")
            /\ loc' = [loc EXCEPT ![t].admitted = cb.state]
    /\ UNCHANGED <<cb, now, increments, concFrame>>

\* line 79 reads last_failure_time and the clock; lines 83-86 raise
CheckTimeout(t) ==
    /\ pc[t] = "timeout"
    /\ IF cb.last_failure_time # None /\ TimedOut(cb, now)
       THEN Goto(t, "set_half")
       ELSE Goto(t, "idle")
    /\ UNCHANGED <<cb, now, loc, increments, concFrame>>

\* line 81 writes HALF_OPEN, then the function is called (line 90)
EnterHalfOpen(t) ==
    /\ pc[t] = "set_half"
    /\ cb' = [cb EXCEPT !.state = HALF_OPEN]
    /\ Goto(t, "running")
    /\ loc' = [loc EXCEPT ![t].admitted = HALF_OPEN]
    /\ UNCHANGED <<now, increments, concFrame>>

\* the function returns; line 93 reads self.state
FuncReturns(t) ==
    /\ pc[t] = "running"
    /\ IF cb.state = HALF_OPEN
       THEN Goto(t, "reset_count")
       ELSE Goto(t, "idle")
    /\ loc' = [loc EXCEPT ![t] = NoLocals]
    /\ UNCHANGED <<cb, now, increments, concFrame>>

\* the function raises; a classified failure enters _handle_failure, where
\* line 109 first loads self.failure_count
FuncRaises(t, type) ==
    /\ pc[t] = "running"
    /\ IF IsInstance(type, cb.expected_exception)
       THEN /\ increments + Cardinality({u \in Threads : pc[u] = "store_count"}) < MaxFailures
            /\ cb.failure_count < MaxFailures
            /\ Goto(t, "store_count")
            /\ loc' = [loc EXCEPT ![t] = [failure_count |-> cb.failure_count,
                                          admitted |-> "none"]]
       ELSE /\ Goto(t, "idle")
            /\ loc' = [loc EXCEPT ![t] = NoLocals]
    /\ UNCHANGED <<cb, now, increments, concFrame>>

\* line 109 stores the loaded value plus one
StoreCount(t) ==
    /\ pc[t] = "store_count"
    /\ cb' = [cb EXCEPT !.failure_count = loc[t].failure_count + 1]
    /\ increments' = increments + 1
    /\ Goto(t, "stamp")
    /\ loc' = [loc EXCEPT ![t] = NoLocals]
    /\ UNCHANGED <<now, concFrame>>

\* line 110
StampFailure(t) ==
    /\ pc[t] = "stamp"
    /\ cb' = [cb EXCEPT !.last_failure_time = now]
    /\ Goto(t, "test")
    /\ UNCHANGED <<now, loc, increments, concFrame>>

\* line 117
TestThreshold(t) ==
    /\ pc[t] = "test"
    /\ IF cb.failure_count >= cb.failure_threshold
       THEN Goto(t, "open")
       ELSE Goto(t, "idle")
    /\ UNCHANGED <<cb, now, loc, increments, concFrame>>

\* line 122, then line 105 re-raises
OpenCircuit(t) ==
    /\ pc[t] = "open"
    /\ cb' = [cb EXCEPT !.state = OPEN]
    /\ Goto(t, "idle")
    /\ UNCHANGED <<now, loc, increments, concFrame>>

\* line 126
ResetCount(t) ==
    /\ pc[t] = "reset_count"
    /\ cb' = [cb EXCEPT !.failure_count = 0]
    /\ increments' = 0
    /\ Goto(t, "reset_stamp")
    /\ UNCHANGED <<now, loc, concFrame>>

\* line 127
ResetStamp(t) ==
    /\ pc[t] = "reset_stamp"
    /\ cb' = [cb EXCEPT !.last_failure_time = None]
    /\ Goto(t, "reset_state")
    /\ UNCHANGED <<now, loc, increments, concFrame>>

\* line 128, then line 97 returns
ResetState(t) ==
    /\ pc[t] = "reset_state"
    /\ cb' = [cb EXCEPT !.state = CLOSED]
    /\ Goto(t, "idle")
    /\ UNCHANGED <<now, loc, increments, concFrame>>

ConcTick ==
    /\ now < MaxTime
    /\ now' = now + 1
    /\ UNCHANGED <<cb, concVars, concFrame>>

ConcInit ==
    /\ cb \in TestBreakers
    /\ now = 0
    /\ SeqIdle
    /\ ConcIdle
    /\ SnowIdle
    /\ ScenIdle
    /\ BindIdle
    /\ RetryIdle
    /\ LaterIdle

ConcNext ==
    \/ \E t \in Threads : Enter(t)
    \/ \E t \in Threads : CheckTimeout(t)
    \/ \E t \in Threads : EnterHalfOpen(t)
    \/ \E t \in Threads : FuncReturns(t)
    \/ \E t \in Threads, type \in ExcTypes : FuncRaises(t, type)
    \/ \E t \in Threads : StoreCount(t)
    \/ \E t \in Threads : StampFailure(t)
    \/ \E t \in Threads : TestThreshold(t)
    \/ \E t \in Threads : OpenCircuit(t)
    \/ \E t \in Threads : ResetCount(t)
    \/ \E t \in Threads : ResetStamp(t)
    \/ \E t \in Threads : ResetState(t)
    \/ ConcTick

ConcSpec == ConcInit /\ [][ConcNext]_vars

-----------------------------------------------------------------------------
(* SnowflakeClient called by one caller at a time.  The mock bodies stand for *)
(* the production calls named in their comments, so a body is an input: it    *)
(* returns, or raises what its `except Exception` clause is there to catch    *)
(* (or something that clause lets through).                                   *)

SnowExcTypes == {"ConnectionError", "KeyboardInterrupt"}

SnowOutcomes == {Returned("v1")} \cup {Raised(OpFailure(t)) : t \in SnowExcTypes}

\* connect(), lines 61-77: the undecorated body doing `out`
ConnectBody(conn, out) ==
    IF out.kind = "return"
    THEN [connected |-> TRUE, out |-> out]
    ELSE IF IsInstance(out.exc.type, "Exception")
    THEN [connected |-> FALSE, out |-> out]
    ELSE [connected |-> conn, out |-> out]

\* self.connect(): the body behind its breaker
\* nested: "ok", "failed" (the body raised) or "rejected" (the breaker raised)
ConnectCall(brs, conn, t, cout) ==
    LET r == CallResult(brs[CONNECT], t, ConnectBody(conn, cout).out, 0) IN
    [ brs |-> [brs EXCEPT ![CONNECT] = r.b],
      connected |-> IF r.invoked = 1 THEN ConnectBody(conn, cout).connected ELSE conn,
      result |-> r.result,
      nested |-> IF r.invoked = 0 THEN "rejected"
                 ELSE IF r.result.kind = "raise" THEN "failed" ELSE "ok" ]

\* the body of query_employee_data, query_employees_by_department and
\* update_leave_balance: connect when not connected, then do `qout`;
\* `except Exception: ... raise` re-raises whatever came
QueryBody(brs, conn, t, cout, qout) ==
    IF conn
    THEN [brs |-> brs, connected |-> conn, out |-> qout, nested |-> "none"]
    ELSE LET c == ConnectCall(brs, conn, t, cout) IN
         [ brs |-> c.brs, connected |-> c.connected,
           out |-> IF c.result.kind = "raise" THEN c.result ELSE qout,
           nested |-> c.nested ]

\* slip of the binding: the three query methods behind one breaker
QueryCallShared(op, brs, conn, t, cout, qout) ==
    IF Gate(brs[QUERY_EMPLOYEE], t).verdict # "admit"
    THEN [ brs |-> brs, connected |-> conn, nested |-> "none",
           result |-> CallResult(brs[QUERY_EMPLOYEE], t, qout, 0).result, invoked |-> 0 ]
    ELSE LET body == QueryBody(brs, conn, t, cout, qout)
             r == CallResult(brs[QUERY_EMPLOYEE], t, body.out, 0)
         IN [ brs |-> [body.brs EXCEPT ![QUERY_EMPLOYEE] = r.b], connected |-> body.connected,
              nested |-> body.nested, result |-> r.result, invoked |-> 1 ]

\* a decorated query method: wrapper -> breaker.call(func)
QueryCall(op, brs, conn, t, cout, qout) ==
    IF Gate(brs[op], t).verdict # "admit"
    THEN [ brs |-> brs, connected |-> conn, nested |-> "none",
           result |-> CallResult(brs[op], t, qout, 0).result, invoked |-> 0 ]
    ELSE LET body == QueryBody(brs, conn, t, cout, qout)
             r == CallResult(brs[op], t, body.out, 0)
         IN [ brs |-> [body.brs EXCEPT ![op] = r.b], connected |-> body.connected,
              nested |-> body.nested, result |-> r.result, invoked |-> 1 ]

\* the observation of one method call: the method's own breaker before, how the
\* nested connect ended, whether the body ran, what the caller got
SnowObserve(op, r) ==
    [ kind |-> "call", op |-> op, own_pre |-> breakers[op], nested |-> r.nested,
      invoked |-> r.invoked, result |-> r.result.kind ]

\* the failures counted by the four breakers together stay within the bound
WithinSnowBounds(brs) ==
    brs[CONNECT].failure_count + brs[QUERY_EMPLOYEE].failure_count
        + brs[QUERY_DEPT].failure_count + brs[UPDATE_LEAVE].failure_count <= MaxSnowFailures

\* client.connect(), as get_snowflake_client() calls it
Connect(cout) ==
    LET c == ConnectCall(breakers, connected, now, cout) IN
    /\ WithinSnowBounds(c.brs)
    /\ breakers' = c.brs
    /\ connected' = c.connected
    /\ snow' = SnowObserve(CONNECT, [ nested |-> "none", result |-> c.result,
                                      invoked |-> IF c.nested = "rejected" THEN 0 ELSE 1 ])
    /\ UNCHANGED <<now, snowFrame>>

\* client.query_employee_data(), .query_employees_by_department(), .update_leave_balance()
Query(op, cout, qout) ==
    LET r == QueryCall(op, breakers, connected, now, cout, qout) IN
    /\ WithinSnowBounds(r.brs)
    /\ breakers' = r.brs
    /\ connected' = r.connected
    /\ snow' = SnowObserve(op, r)
    /\ UNCHANGED <<now, snowFrame>>

\* client.close(), lines 217-227
Close ==
    /\ connected' = FALSE
    /\ snow' = [kind |-> "close"]
    /\ UNCHANGED <<breakers, now, snowFrame>>

SnowTick ==
    /\ now + SnowTickStep <= MaxSnowTime
    /\ now' = now + SnowTickStep
    /\ UNCHANGED <<snowVars, snowFrame>>

SnowInit ==
    /\ cb = NewBreaker(5, 60, "Exception", "CircuitBreaker")
    /\ now = 0
    /\ SeqIdle
    /\ ConcIdle
    /\ SnowIdle
    /\ ScenIdle
    /\ BindIdle
    /\ RetryIdle
    /\ LaterIdle

SnowNext ==
    \/ \E cout \in SnowOutcomes : Connect(cout)
    \/ \E op \in QueryOps, cout, qout \in SnowOutcomes : Query(op, cout, qout)
    \/ Close
    \/ SnowTick

SnowSpec == SnowInit /\ [][SnowNext]_vars

-----------------------------------------------------------------------------
(* SnowflakeClient with its status queries: CircuitBreaker.get_state() on   *)
(* the breaker a wrapper exposes, and SnowflakeClient.get_connection_status *)

\* snowflake_client.py lines 229-244; account, warehouse and database are
\* configuration strings and are left out
ConnectionStatus(brs, conn) ==
    [ connected |-> conn,
      circuit_breakers |-> [ connection |-> GetState(brs[CONNECT]),
                             query_employee |-> GetState(brs[QUERY_EMPLOYEE]) ] ]

\* method.circuit_breaker.get_state() for the method bound as op
GetStateOf(op) ==
    /\ snow' = [kind |-> "get_state", op |-> op, value |-> GetState(breakers[op])]
    /\ UNCHANGED <<breakers, connected, now, snowFrame>>

\* client.get_connection_status()
GetConnectionStatus ==
    /\ snow' = [kind |-> "get_connection_status", value |-> ConnectionStatus(breakers, connected)]
    /\ UNCHANGED <<breakers, connected, now, snowFrame>>

StatusNext ==
    \/ SnowNext
    \/ \E op \in SnowOps : GetStateOf(op)
    \/ GetConnectionStatus

StatusSpec == SnowInit /\ [][StatusNext]_vars

-----------------------------------------------------------------------------
(* The breaker of the recovery scenario: failure_threshold 3, timeout 30,   *)
(* the values SnowflakeClient.connect is bound with.  One caller at a time. *)

\* the count of classified failures handled since the latest successful probe;
\* returned / unclassified: after the first of them, a call made while CLOSED
\* has returned / has raised an exception that is not classified
NextSince(r, out) ==
    IF r.invoked = 1 /\ r.at_invoke = HALF_OPEN /\ out.kind = "return"
    THEN [probed |-> TRUE, failures |-> 0, returned |-> FALSE, unclassified |-> FALSE]
    ELSE IF /\ since.probed
            /\ r.invoked = 1
            /\ out.kind = "raise"
            /\ IsInstance(out.exc.type, cb.expected_exception)
    THEN [since EXCEPT !.failures = since.failures + 1]
    ELSE IF since.probed /\ since.failures > 0 /\ r.invoked = 1 /\ r.at_invoke = CLOSED
    THEN IF out.kind = "return"
         THEN [since EXCEPT !.returned = TRUE]
         ELSE [since EXCEPT !.unclassified = TRUE]
    ELSE since

\* the function takes no time here: its duration only moves the failure time
ScenCall(out) ==
    LET r == CallResult(cb, now, out, 0) IN
    /\ r.end <= ScenMaxTime
    /\ r.b.failure_count <= MaxFailures
    /\ cb' = r.b
    /\ now' = r.end
    /\ hist' = Observe(cb, now, out, 0, r, IF hist.kind = "call" THEN 1 - hist.flip ELSE 0)
    /\ run' = NextRun(cb, r, out)
    /\ since' = NextSince(r, out)
    /\ UNCHANGED scenFrame

ScenTick ==
    /\ now < ScenMaxTime
    /\ now' = now + 1
    /\ UNCHANGED <<cb, hist, run, since>>
    /\ UNCHANGED scenFrame

ScenInit ==
    /\ cb = SnowBreakers[CONNECT]
    /\ now = 0
    /\ SeqIdle
    /\ ConcIdle
    /\ SnowIdle
    /\ ScenIdle
    /\ BindIdle
    /\ RetryIdle
    /\ LaterIdle

ScenNext ==
    \/ \E out \in Outcomes : ScenCall(out)
    \/ ScenTick

ScenarioSpec == ScenInit /\ [][ScenNext]_vars

-----------------------------------------------------------------------------
(* circuit_breaker.py: the decorator circuit_breaker(...).  Objects have     *)
(* identity: a breaker is its index in heap.  A wrapper holds the breaker   *)
(* twice: in the closure variable `breaker` that its body reads, and in the *)
(* attribute circuit_breaker set on it.                                     *)

\* the default of the decorator's name parameter
NoName == "None"

\* line 157: name or func.__name__
BreakerName(name, func) == IF name = NoName THEN func ELSE name

\* slip of the wrapper: a breaker of the same configuration made for each call
WrapperCallFresh(h, w, t, out) ==
    LET old == h[w.breaker]
        fresh == NewBreaker(old.failure_threshold, old.timeout, old.expected_exception, old.name)
        r == CallResult(fresh, t, out, 0)
    IN  [heap |-> Append(h, r.b), r |-> r]

\* lines 165-167: the wrapper's body, breaker.call(func, ...), on heap h
WrapperCallResult(h, w, t, out) ==
    LET r == CallResult(h[w.breaker], t, out, 0)
    IN  [heap |-> [h EXCEPT ![w.breaker] = r.b], r |-> r]

\* lines 156-172: decorator(func) replaces func by the wrapper
Decorate(f, failure_threshold, timeout, expected_exception, name) ==
    /\ ~wrappers[f].decorated
    /\ heap' = Append(heap, NewBreaker(failure_threshold, timeout, expected_exception,
                                       BreakerName(name, f)))
    /\ wrappers' = [wrappers EXCEPT ![f] =
           [decorated |-> TRUE, breaker |-> Len(heap) + 1, circuit_breaker |-> Len(heap) + 1]]
    /\ UNCHANGED <<now, bound, bindFrame>>

\* a call of the decorated function f
WrapperCall(f, out) ==
    /\ wrappers[f].decorated
    /\ LET c == WrapperCallResult(heap, wrappers[f], now, out)
           b == heap[wrappers[f].breaker]
       IN  /\ c.r.b.failure_count <= MaxFailures
           /\ heap' = c.heap
           /\ bound' = [bound EXCEPT ![f] =
                  IF c.r.invoked = 1 /\ c.r.at_invoke = HALF_OPEN /\ out.kind = "return"
                  THEN 0
                  ELSE IF /\ c.r.invoked = 1
                          /\ out.kind = "raise"
                          /\ IsInstance(out.exc.type, b.expected_exception)
                  THEN bound[f] + 1
                  ELSE bound[f]]
    /\ UNCHANGED <<now, wrappers, bindFrame>>

BindTick ==
    /\ now < BindMaxTime
    /\ now' = now + 1
    /\ UNCHANGED <<bindVars, bindFrame>>

BindInit ==
    /\ cb = NewBreaker(5, 60, "Exception", "CircuitBreaker")
    /\ now = 0
    /\ SeqIdle
    /\ ConcIdle
    /\ SnowIdle
    /\ ScenIdle
    /\ BindIdle
    /\ RetryIdle
    /\ LaterIdle

BindNext ==
    \/ \E f \in FuncNames, th \in 1..MaxThreshold, nm \in {NoName, CONNECT} :
           Decorate(f, th, 1, "Exception", nm)
    \/ \E f \in FuncNames, out \in Outcomes : WrapperCall(f, out)
    \/ BindTick

BindSpec == BindInit /\ [][BindNext]_vars

-----------------------------------------------------------------------------
(* app/agent.py: LeaveAssistantAgent._generate_response.  The remote call   *)
(* completion(...) is an input of each attempt: the response it returns or  *)
(* the exception it raises.  time.sleep(s) moves the clock by s.            *)

max_retries == 3
retry_delay == 2

\* circuit_breaker.py lines 142-143: the decorator's defaults
DefaultFailureThreshold == 5
DefaultTimeout == 60

RECURSIVE Pow2(_)
\* 2 ** n
Pow2(n) == IF n = 0 THEN 1 ELSE 2 * Pow2(n - 1)

\* slip of the backoff: the exponent counted from one
WaitTimeFromOne(i) == retry_delay * Pow2(i + 1)

\* line 209: wait_time = retry_delay * (2 ** attempt)
WaitTime(i) == retry_delay * Pow2(i)

\* slip of the except clause: every Exception retried
TransientAny(type) == IsInstance(type, "Exception")

\* line 207: except RateLimitError
Transient(type) == IsInstance(type, "RateLimitError")

\* what completion(...) may raise
CompletionExcTypes == {"RateLimitError", "ValueError", "KeyboardInterrupt"}

\* what completion(...) may return: the message's content and whether it asks for tools
Responses == [content : Values, tool_calls : BOOLEAN]

CompletionOutcomes ==
    {Returned(r) : r \in Responses} \cup {Raised(OpFailure(t)) : t \in CompletionExcTypes}

\* slip of the success path: the response of the attempt not kept
AttemptDropResponse(i, out) ==
    IF out.kind = "return"
    THEN [next |-> "break", response |-> NoResponse]
    ELSE IF Transient(out.exc.type) /\ i < max_retries - 1
    THEN [next |-> "sleep", response |-> NoResponse]
    ELSE [next |-> "raise", response |-> NoResponse]

\* slip of line 208: the last attempt retried too
AttemptOfRetryLast(n, i, out) ==
    IF out.kind = "return"
    THEN [next |-> "break", response |-> out.value]
    ELSE IF Transient(out.exc.type) /\ i < n
    THEN [next |-> "sleep", response |-> NoResponse]
    ELSE [next |-> "raise", response |-> NoResponse]

\* lines 196-208, 212-214: the body of the retry loop for attempt i, completion
\* doing `out`, when the local max_retries is n: leave the loop with the
\* response, sleep and go on, or raise
AttemptOf(n, i, out) ==
    IF out.kind = "return"
    THEN [next |-> "break", response |-> out.value]
    ELSE IF Transient(out.exc.type) /\ i < n - 1
    THEN [next |-> "sleep", response |-> NoResponse]
    ELSE [next |-> "raise", response |-> NoResponse]

\* the loop body with max_retries as line 192 sets it
Attempt(i, out) == AttemptOf(max_retries, i, out)

\* lines 239-244: the dictionary returned by the outer except clause
ErrorResponse(e) ==
    [ content |-> "I apologize, but I'm having trouble generating a response right now.",
      error |-> e.msg ]

\* lines 174, 239: exception e leaves the outer try block
Unwind(e) ==
    IF IsInstance(e.type, "Exception") THEN Returned(ErrorResponse(e)) ELSE Raised(e)

\* failures in a row of completion(...) after one more call of it, counted up
\* to MaxCompletionFailures
NextFails(out) ==
    IF out.kind = "return" THEN 0
    ELSE IF IsInstance(out.exc.type, "Exception") /\ cfails < MaxCompletionFailures
    THEN cfails + 1
    ELSE cfails

\* lines 174-195: the function is entered and the loop begins with attempt 0
Generate ==
    /\ rpc = "idle"
    /\ rpc' = "completion"
    /\ attempt' = 0
    /\ response' = NoResponse
    /\ retry' = NewRun(now)
    /\ UNCHANGED <<now, cfails, retryFrame>>

\* lines 196-214: completion(...) is called and the loop body handles what it does
TryCompletion(out) ==
    /\ rpc = "completion"
    /\ LET a == Attempt(attempt, out)
           seen == [retry EXCEPT
                      !.calls = retry.calls + 1,
                      !.transient = IF out.kind = "raise" /\ out.exc.type = "RateLimitError"
                                    THEN retry.transient + 1 ELSE retry.transient]
       IN  /\ response' = IF a.next = "break" THEN a.response ELSE response
           /\ CASE a.next = "break" ->
                    /\ rpc' = "message"
                    /\ retry' = [seen EXCEPT !.loop = [kind |-> "return", out |-> out, attempt |-> attempt]]
                [] a.next = "sleep" ->
                    /\ rpc' = "sleep"
                    /\ retry' = seen
                [] a.next = "raise" ->
                    /\ rpc' = "idle"
                    /\ retry' = [seen EXCEPT !.loop = [kind |-> "raise", out |-> out, attempt |-> attempt],
                                             !.result = Unwind(out.exc)]
    /\ cfails' = NextFails(out)
    /\ UNCHANGED <<now, attempt, retryFrame>>

\* lines 209-211: time.sleep(wait_time), then the loop goes on to the next attempt
Sleep ==
    /\ rpc = "sleep"
    /\ now + WaitTime(attempt) <= RetryMaxTime
    /\ now' = now + WaitTime(attempt)
    /\ retry' = [retry EXCEPT !.sleeps = Append(retry.sleeps, WaitTime(attempt))]
    /\ attempt' = attempt + 1
    /\ rpc' = "completion"
    /\ UNCHANGED <<response, cfails, retryFrame>>

\* lines 217-237: the response of the loop is used
UseResponse ==
    /\ rpc = "message"
    /\ IF response.tool_calls
       THEN /\ rpc' = "tools"
            /\ retry' = retry
       ELSE /\ rpc' = "idle"
            /\ retry' = [retry EXCEPT !.result = Returned([content |-> response.content])]
    /\ UNCHANGED <<now, attempt, response, cfails, retryFrame>>

\* slip of _handle_tool_calls: a rate-limited follow-up slept on and called again
FollowUpRetried(out) ==
    /\ rpc = "tools"
    /\ IF out.kind = "raise" /\ Transient(out.exc.type) /\ now + retry_delay <= RetryMaxTime
       THEN /\ rpc' = "tools"
            /\ now' = now + retry_delay
            /\ retry' = [retry EXCEPT !.followups = retry.followups + 1, !.follow = out]
       ELSE /\ rpc' = "idle"
            /\ now' = now
            /\ retry' = [retry EXCEPT
                            !.followups = retry.followups + 1,
                            !.follow = out,
                            !.result = IF out.kind = "return"
                                       THEN Returned([content |-> out.value.content])
                                       ELSE Unwind(out.exc)]
    /\ cfails' = NextFails(out)
    /\ UNCHANGED <<attempt, response, retryFrame>>

\* lines 221, 314-337: _handle_tool_calls calls completion(...) once more, outside any loop
FollowUp(out) ==
    /\ rpc = "tools"
    /\ rpc' = "idle"
    /\ retry' = [retry EXCEPT
                    !.followups = retry.followups + 1,
                    !.follow = out,
                    !.result = IF out.kind = "return"
                               THEN Returned([content |-> out.value.content])
                               ELSE Unwind(out.exc)]
    /\ cfails' = NextFails(out)
    /\ UNCHANGED <<now, attempt, response, retryFrame>>

RetryInit ==
    /\ cb = NewBreaker(5, 60, "Exception", "CircuitBreaker")
    /\ now = 0
    /\ SeqIdle
    /\ ConcIdle
    /\ SnowIdle
    /\ ScenIdle
    /\ BindIdle
    /\ RetryIdle
    /\ LaterIdle

RetryNext ==
    \/ Generate
    \/ \E out \in CompletionOutcomes : TryCompletion(out)
    \/ Sleep
    \/ UseResponse
    \/ \E out \in CompletionOutcomes : FollowUp(out)

RetrySpec == RetryInit /\ [][RetryNext]_vars

-----------------------------------------------------------------------------
(* app/agent.py lines 192-214: the retry loop on its own, as a function of  *)
(* its local max_retries.  The program sets max_retries = 3; here the loop  *)
(* is entered with any value from 1 to MaxRetries.                          *)

\* lines 192-195: max_retries = n and the loop begins with attempt 0
LoopEnter(n) ==
    /\ rpc = "idle"
    /\ limit' = n
    /\ rpc' = "completion"
    /\ attempt' = 0
    /\ response' = NoResponse
    /\ retry' = NewRun(now)
    /\ UNCHANGED <<now, loopFrame>>

\* lines 196-214: completion(...) is called and the loop body handles what it does
LoopTry(out) ==
    /\ rpc = "completion"
    /\ LET a == AttemptOf(limit, attempt, out)
           seen == [retry EXCEPT
                      !.calls = retry.calls + 1,
                      !.transient = IF out.kind = "raise" /\ out.exc.type = "RateLimitError"
                                    THEN retry.transient + 1 ELSE retry.transient]
       IN  /\ response' = IF a.next = "break" THEN a.response ELSE response
           /\ CASE a.next = "break" ->
                    /\ rpc' = "idle"
                    /\ retry' = [seen EXCEPT !.loop = [kind |-> "return", out |-> out, attempt |-> attempt]]
                [] a.next = "sleep" ->
                    /\ rpc' = "sleep"
                    /\ retry' = seen
                [] a.next = "raise" ->
                    /\ rpc' = "idle"
                    /\ retry' = [seen EXCEPT !.loop = [kind |-> "raise", out |-> out, attempt |-> attempt]]
    /\ UNCHANGED <<now, attempt, limit, loopFrame>>

LoopNext ==
    \/ \E n \in 1..MaxRetries : LoopEnter(n)
    \/ \E out \in CompletionOutcomes : LoopTry(out)
    \/ Sleep

LoopSpec == RetryInit /\ [][LoopNext]_vars

-----------------------------------------------------------------------------
(* app/metrics.py: record_circuit_breaker_state and the gauge              *)
(* CIRCUIT_BREAKER_STATE, one value per service label                       *)

\* the strings a caller may pass as state: CircuitState's values and one other
StateNames == CircuitState \cup {"unknown"}

\* slip of the state map: open and half_open exchanged
StateMapSwapped(state) ==
    CASE state = CLOSED -> 0
      [] state = OPEN -> 2
      [] state = HALF_OPEN -> 1
      [] OTHER -> 0

\* lines 121-122: state_map.get(state, 0)
StateMap(state) ==
    CASE state = CLOSED -> 0
      [] state = OPEN -> 1
      [] state = HALF_OPEN -> 2
      [] OTHER -> 0

\* lines 120-122
RecordCircuitBreakerState(service, state) ==
    /\ gauges' = [gauges EXCEPT ![service] = StateMap(state)]
    /\ recorded' = [recorded EXCEPT ![service] = state]
    /\ UNCHANGED metricsFrame

MetricsNext ==
    \E service \in Services, state \in StateNames : RecordCircuitBreakerState(service, state)

MetricsSpec == RetryInit /\ [][MetricsNext]_vars

-----------------------------------------------------------------------------
(* app/agent.py: LeaveAssistantAgent.sessions, as chat() and clear_session() *)
(* change it, and app/main.py: what POST /chat and DELETE /session/{id}     *)
(* answer.  A history is the sequence of its messages' kinds: "system",     *)
(* "user" and "assistant" (nothing a BLOCKED_PATTERN matches),              *)
(* "user_blocked" and "assistant_blocked" (something one matches).          *)

UserTexts == {"user", "user_blocked"}

\* what the model's answer may be
Answers == {"assistant", "assistant_blocked"}

\* callbacks.py lines 140-145: a BLOCKED_PATTERN matches the message's content
ContainsBlockedContent(message) == message \in {"user_blocked", "assistant_blocked"}

\* slip of the scan: only the newest message looked at
IsBlockedNewest(history) == ContainsBlockedContent(history[Len(history)])

\* callbacks.py lines 70-78: some message of the history has blocked content
IsBlocked(history) == \E k \in 1..Len(history) : ContainsBlockedContent(history[k])

\* agent.py lines 102-114: the stored history once the user message is added
WithUserMessage(id, text) ==
    Append(IF id \in DOMAIN sessions THEN sessions[id] ELSE <<"system">>, text)

\* the sessions with the history of id set to history
Store(id, history) ==
    [i \in DOMAIN sessions \cup {id} |-> IF i = id THEN history ELSE sessions[i]]

\* agent.py lines 339-343: del self.sessions[session_id] when it is there
Forget(id) ==
    [i \in DOMAIN sessions \ {id} |-> sessions[i]]

\* POST /chat: main.py lines 123-170 around agent.chat, agent.py lines 81-162
\* answer: what the model says when _generate_response is reached
\* reply.generated: whether it was reached
Chat(id, text, answer) ==
    LET asked == WithUserMessage(id, text) IN
    /\ Len(asked) < MaxHistory
    /\ IF IsBlocked(asked)
       THEN /\ sessions' = Store(id, asked)
            /\ reply' = [kind |-> "chat", id |-> id, status |-> 200, blocked |-> TRUE,
                         existed |-> id \in DOMAIN sessions, pre |-> sessions,
                         text |-> text, generated |-> FALSE]
       ELSE /\ sessions' = Store(id, Append(asked, answer))
            /\ reply' = [kind |-> "chat", id |-> id, status |-> 200, blocked |-> FALSE,
                         existed |-> id \in DOMAIN sessions, pre |-> sessions,
                         text |-> text, generated |-> TRUE]
    /\ UNCHANGED sessionFrame

\* DELETE /session/{id}: main.py lines 175-199 around agent.clear_session
DeleteSession(id) ==
    /\ sessions' = Forget(id)
    /\ reply' = [kind |-> "delete", id |-> id, status |-> 200, blocked |-> FALSE,
                 existed |-> id \in DOMAIN sessions, pre |-> sessions,
                 text |-> "none", generated |-> FALSE]
    /\ UNCHANGED sessionFrame

SessionNext ==
    \/ \E id \in SessionIds, text \in UserTexts, answer \in Answers : Chat(id, text, answer)
    \/ \E id \in SessionIds : DeleteSession(id)

SessionSpec == RetryInit /\ [][SessionNext]_vars

-----------------------------------------------------------------------------
(* app/callbacks.py: AfterModelCallback.  A response is the dictionary that *)
(* _generate_response hands over: its content is what the model's message   *)
(* held ("text", "" for an empty string, "long" for more than 10000       *)
(* characters, "None" when the message had no content), it has an "error"  *)
(* key or not, and its usage is missing, an empty dictionary or a           *)
(* dictionary with total_tokens.                                            *)

Contents == {"text", "", "long", "None"}

\* no "usage" key; usage {}; usage {"total_tokens": n}
Usages ==
    {[has |-> h, total_tokens |-> 0] : h \in {"missing", "empty"}}
        \cup {[has |-> "total_tokens", total_tokens |-> n] : n \in 0..MaxTokens}

ModelResponses == [content : Contents, error : BOOLEAN, usage : Usages]

\* lines 216-237: _validate_response; len(None) at line 235 raises TypeError
ValidateResponse(resp) ==
    IF resp.content = "None"
    THEN [raised |-> TRUE, valid |-> FALSE]
    ELSE [raised |-> FALSE,
          valid |-> /\ resp.content # ""
                    /\ ~resp.error
                    /\ resp.content # "long"]

\* lines 198-199: response.get("usage", {}).get("total_tokens", 0)
TokensUsed(resp) ==
    IF resp.usage.has = "total_tokens" THEN resp.usage.total_tokens ELSE 0

\* lines 184-200: the counters after __call__(response), and whether it raised
AfterCallResult(a, resp) ==
    LET counted == [a EXCEPT !.total_calls = a.total_calls + 1,
                             !.response_count = a.response_count + 1]
        v == ValidateResponse(resp)
    IN  IF v.raised
        THEN [a |-> counted, raised |-> TRUE, valid |-> FALSE]
        ELSE [a |-> [counted EXCEPT
                        !.error_count = IF v.valid THEN counted.error_count
                                        ELSE counted.error_count + 1,
                        !.total_tokens = counted.total_tokens + TokensUsed(resp)],
              raised |-> FALSE, valid |-> v.valid]

\* lines 252-260: get_stats; average_tokens is numerator over denominator
GetStats(a) ==
    [ total_calls |-> a.total_calls,
      response_count |-> a.response_count,
      error_count |-> a.error_count,
      total_tokens |-> a.total_tokens,
      average_tokens |-> <<a.total_tokens, IF a.response_count > 1 THEN a.response_count ELSE 1>> ]

\* after_model_callback(response), agent.py line 135
AfterModelCall(resp) ==
    LET r == AfterCallResult(after, resp) IN
    /\ after.total_calls < MaxCalls
    /\ after' = r.a
    /\ fed' = [ invocations |-> fed.invocations + 1,
                tokens |-> fed.tokens + TokensUsed(resp),
                raised |-> IF r.raised THEN fed.raised + 1 ELSE fed.raised,
                latest |-> [kind |-> "call", given |-> resp, raised |-> r.raised,
                            valid |-> r.valid] ]
    /\ UNCHANGED callbackFrame

CallbackNext == \E resp \in ModelResponses : AfterModelCall(resp)

CallbackSpec == RetryInit /\ [][CallbackNext]_vars

-----------------------------------------------------------------------------
(* One breaker, one caller at a time, calls arriving and the clock running  *)
(* for ever.  The clock is kept finite by moving the epoch: once now has    *)
(* reached MaxTime a second passing lowers last_failure_time in place of    *)
(* raising now, which leaves time.time() - last_failure_time what it would  *)
(* be, up to MaxTime seconds (MaxTime >= every timeout).                    *)

LiveCall(out) ==
    LET r == CallResult(cb, now, out, 0) IN
    /\ r.b.failure_count <= MaxFailures
    /\ cb' = r.b
    /\ now' = r.end
    /\ hist' = Observe(cb, now, out, 0, r, IF hist.kind = "call" THEN 1 - hist.flip ELSE 0)
    /\ run' = NextRun(cb, r, out)
    /\ UNCHANGED seqFrame

LiveTick ==
    /\ IF now < MaxTime
       THEN /\ now' = now + 1
            /\ cb' = cb
       ELSE /\ now' = now
            /\ cb.last_failure_time > 0
            /\ cb' = [cb EXCEPT !.last_failure_time = cb.last_failure_time - 1]
    /\ UNCHANGED <<hist, run>>
    /\ UNCHANGED seqFrame

LiveArrival == \E out \in Outcomes : LiveCall(out)

LiveNext ==
    \/ LiveArrival
    \/ LiveTick

\* calls keep arriving and time keeps advancing
LiveSpec ==
    /\ Init
    /\ [][LiveNext]_vars
    /\ WF_vars(LiveArrival)
    /\ WF_vars(LiveTick)

-----------------------------------------------------------------------------
(* Properties of one breaker called by one caller at a time (Spec) *)

Called == hist.kind = "call"

\* the latest call found the breaker OPEN with the timeout not yet elapsed
FoundOpenInWindow ==
    /\ Called
    /\ hist.pre.state = OPEN
    /\ hist.at - hist.pre.last_failure_time < hist.pre.timeout

\* the latest call found the breaker OPEN with the timeout elapsed
FoundOpenTimedOut ==
    /\ Called
    /\ hist.pre.state = OPEN
    /\ hist.at - hist.pre.last_failure_time >= hist.pre.timeout

Classified(h) ==
    /\ h.invoked = 1
    /\ h.out.kind = "raise"
    /\ IsInstance(h.out.exc.type, h.pre.expected_exception)

Unclassified(h) ==
    /\ h.invoked = 1
    /\ h.out.kind = "raise"
    /\ ~IsInstance(h.out.exc.type, h.pre.expected_exception)

\* C1: a call() on an OPEN breaker made less than timeout after last_failure_time
\* raises the breaker-open error and does not invoke the function.
C1_OpenRejects ==
    FoundOpenInWindow =>
        /\ hist.invoked = 0
        /\ hist.result = Raised(BreakerOpenError(hist.pre))

C1_Witness ==
    /\ FoundOpenInWindow
    /\ hist.invoked = 0
    /\ hist.at > hist.pre.last_failure_time

\* C2: increments from a CLOSED breaker with failure_count 0, after fewer than
\* failure_threshold classified failures in a row the breaker is CLOSED (and has
\* increments them all); after failure_threshold of them it is OPEN.
C2_OpensAtThreshold ==
    run > 0 =>
        IF run < cb.failure_threshold
        THEN cb.state = CLOSED /\ cb.failure_count = run
        ELSE cb.state = OPEN

C2_Witness ==
    /\ run = cb.failure_threshold
    /\ cb.failure_threshold > 1
    /\ cb.state = OPEN

\* C3: a call() on an OPEN breaker made timeout or more after last_failure_time
\* (exactly timeout included) invokes the function once, with the breaker
\* already HALF_OPEN when it is invoked.
C3_TimedOutAdmits ==
    FoundOpenTimedOut =>
        /\ hist.invoked = 1
        /\ hist.at_invoke = HALF_OPEN

C3_Witness ==
    /\ FoundOpenTimedOut
    /\ hist.pre.timeout > 0
    /\ hist.at - hist.pre.last_failure_time = hist.pre.timeout
    /\ hist.at_invoke = HALF_OPEN

\* C4: after a HALF_OPEN probe whose function returned, the breaker is CLOSED,
\* failure_count is 0 and last_failure_time is None.
C4_ProbeSuccessResets ==
    (Called /\ hist.at_invoke = HALF_OPEN /\ hist.out.kind = "return") =>
        /\ cb.state = CLOSED
        /\ cb.failure_count = 0
        /\ cb.last_failure_time = None

C4_Witness ==
    /\ Called
    /\ hist.at_invoke = HALF_OPEN
    /\ hist.out.kind = "return"
    /\ hist.pre.failure_count > 0
    /\ cb.state = CLOSED

ProbeFailed(h) ==
    /\ h.kind = "call"
    /\ h.at_invoke = HALF_OPEN
    /\ Classified(h)

\* C5: a classified failure of a HALF_OPEN probe leaves the breaker OPEN with
\* last_failure_time the time of that failure, whatever the threshold; and a
\* call() made less than timeout after that failure is rejected with the
\* breaker-open error without invoking the function.
C5_ProbeFailureReopens ==
    [][ /\ (hist' # hist /\ ProbeFailed(hist')) =>
              /\ cb'.state = OPEN
              /\ cb'.last_failure_time = hist'.end
        /\ (hist' # hist /\ ProbeFailed(hist) /\ now - hist.end < cb.timeout) =>
              /\ hist'.invoked = 0
              /\ hist'.result = Raised(BreakerOpenError(cb))
      ]_vars

C5_Witness ==
    /\ Called
    /\ hist.pre.state = OPEN
    /\ hist.pre.failure_count > hist.pre.failure_threshold
    /\ hist.pre.last_failure_time > 0
    /\ hist.at > hist.pre.last_failure_time
    /\ hist.invoked = 0

\* C6: a failure of the function that is not an instance of expected_exception
\* leaves state and failure_count as they were when call() started.
C6_UnclassifiedUntouched ==
    (Called /\ Unclassified(hist)) =>
        /\ cb.state = hist.pre.state
        /\ cb.failure_count = hist.pre.failure_count

\* C9: every call() either returns what the function returned, or raises the
\* very exception the function raised, or raises the breaker-open error without
\* having invoked the function.
C9_ThreeOutcomes ==
    Called =>
        \/ hist.invoked = 1 /\ hist.out.kind = "return" /\ hist.result = hist.out
        \/ hist.invoked = 1 /\ hist.out.kind = "raise" /\ hist.result = hist.out
        \/ hist.invoked = 0 /\ hist.result = Raised(BreakerOpenError(hist.pre))

C9_Witness ==
    /\ Called
    /\ Classified(hist)
    /\ hist.out.exc.type # "Exception"
    /\ hist.result = hist.out
    /\ cb.state = OPEN


\* C11: whenever the breaker is OPEN, failure_count >= failure_threshold: it
\* opened on reaching the threshold, or reopened after a failed probe.
C11_OpenMeansThreshold ==
    cb.state = OPEN => cb.failure_count >= cb.failure_threshold

C11_Witness ==
    /\ cb.state = OPEN
    /\ cb.failure_threshold > 1
    /\ ProbeFailed(hist)
    /\ hist.pre.state = OPEN

\* the step is the HALF_OPEN probe's success that closes the breaker
\* C13: once a successful probe has closed the breaker (threshold 3, timeout
\* 30), counting starts again from zero: while fewer than failure_threshold
\* classified failures have followed the probe, the breaker is CLOSED and
\* failure_count is their number (1 after one failure); from the
\* failure_threshold-th on it is no longer CLOSED.
C13_CountRestartsAfterProbe ==
    since.probed =>
        IF since.failures < cb.failure_threshold
        THEN cb.state = CLOSED /\ cb.failure_count = since.failures
        ELSE cb.state # CLOSED

\* the probe at t >= 30 succeeded and one classified failure followed
C13_Witness ==
    /\ cb.failure_threshold = 3 /\ cb.timeout = 30
    /\ since.probed /\ since.failures = 1
    /\ Called /\ Classified(hist)
    /\ cb.state = CLOSED /\ cb.failure_count = 1

\* C14 as stated: a failed HALF_OPEN probe leaves failure_count where it was,
\* and failure_count never exceeds failure_threshold.
C14_CountStaysAtThreshold ==
    /\ ProbeFailed(hist) => cb.failure_count = hist.pre.failure_count
    /\ cb.failure_count <= cb.failure_threshold

\* C14 (amended): a failed HALF_OPEN probe is counted like any classified
\* failure: the breaker reopens with failure_count one more than before the
\* probe, which is above failure_threshold.
C14_ProbeFailureCounted ==
    ProbeFailed(hist) =>
        /\ cb.state = OPEN
        /\ cb.failure_count = hist.pre.failure_count + 1
        /\ cb.failure_count > cb.failure_threshold

C14_Witness ==
    /\ ProbeFailed(hist)
    /\ hist.pre.failure_count = cb.failure_threshold
    /\ cb.state = OPEN
    /\ cb.failure_count = cb.failure_threshold + 1

\* the latest call was rejected by the OPEN breaker
Rejected == Called /\ hist.invoked = 0

\* the latest call was the trial call of an OPEN breaker whose timeout had elapsed
TrialAdmitted == Called /\ hist.pre.state = OPEN /\ hist.invoked = 1 /\ hist.at_invoke = HALF_OPEN

\* C15: with calls arriving and time advancing for ever, an OPEN breaker does
\* not reject for ever: a rejection is followed by a call that is admitted as
\* the trial; a trial on which the function returns leaves the breaker CLOSED,
\* a further call follows it, and every call made on a CLOSED breaker invokes
\* the function.
C15_OpenEventuallyProbes ==
    /\ Rejected ~> TrialAdmitted
    /\ [](TrialAdmitted /\ hist.out.kind = "return" => cb.state = CLOSED)
    /\ (TrialAdmitted /\ hist.out.kind = "return") ~> (Called /\ hist.pre.state = CLOSED)
    /\ [](Called /\ hist.pre.state = CLOSED => hist.invoked = 1 /\ hist.at_invoke = CLOSED)

\* a trial call that followed a failure by a positive timeout closed the breaker
C15_Witness ==
    /\ TrialAdmitted
    /\ hist.pre.timeout > 0
    /\ hist.out.kind = "return"
    /\ cb.state = CLOSED

DecoratedFuncs == {f \in FuncNames : wrappers[f].decorated}

\* C16: one CircuitBreaker object exists per decorated function, made when it
\* was decorated and none made by a call; the wrapper's calls go through that
\* object, so its failure_count is the number of classified failures of the
\* separate calls since its latest reset; wrapper.circuit_breaker is that
\* same object.
C16_OneSharedBreaker ==
    /\ Len(heap) = Cardinality(DecoratedFuncs)
    /\ \A f \in DecoratedFuncs :
          /\ wrappers[f].breaker \in 1..Len(heap)
          /\ wrappers[f].circuit_breaker = wrappers[f].breaker
          /\ heap[wrappers[f].circuit_breaker].failure_count = bound[f]
          /\ \A g \in DecoratedFuncs : g # f => wrappers[g].breaker # wrappers[f].breaker

\* two failing calls of one decorated function are both in its breaker's count
C16_Witness ==
    \E f \in DecoratedFuncs :
        /\ bound[f] = 2
        /\ heap[wrappers[f].circuit_breaker].failure_count = 2
        /\ heap[wrappers[f].circuit_breaker].name = f

RECURSIVE SumSeq(_)
SumSeq(q) == IF q = <<>> THEN 0 ELSE Head(q) + SumSeq(Tail(q))

\* C17: the i-th backoff delay of a run (i from 0) is retry_delay * 2^i and is
\* taken only after attempt i failed with RateLimitError and i < max_retries
\* - 1; the clock moves by exactly the delays; with max_retries 3 and
\* retry_delay 2 three rate-limit failures in a row give the delays 2, 4 and
\* the run is over after the third, with no further delay.
C17_BackoffDelays ==
    /\ Len(retry.sleeps) <= max_retries - 1
    /\ \A i \in 1..Len(retry.sleeps) : retry.sleeps[i] = retry_delay * Pow2(i - 1)
    /\ now = retry.start + SumSeq(retry.sleeps)
    /\ rpc = "sleep" =>
          /\ attempt < max_retries - 1
          /\ retry.transient = attempt + 1
          /\ Len(retry.sleeps) = attempt
    /\ rpc = "completion" => Len(retry.sleeps) = attempt /\ retry.transient = attempt
    /\ retry.transient = max_retries => retry.sleeps = <<2, 4>> /\ rpc = "idle"

C17_Witness ==
    /\ retry.transient = 3
    /\ retry.calls = 3
    /\ retry.sleeps = <<2, 4>>
    /\ now = retry.start + 6
    /\ rpc = "idle"

\* C18: when the attempt of index max_retries - 1 fails with RateLimitError,
\* _generate_response raises that same exception to its caller.
C18_LastFailurePropagates ==
    (retry.loop.kind = "raise" /\ retry.transient = max_retries) =>
        retry.result = Raised(retry.loop.out.exc)

\* C19: when completion raises anything but RateLimitError on attempt i, the
\* loop is left by that exception on attempt i: completion has been called
\* i + 1 times and is not called again, and the only delays taken are those
\* of the i rate-limit failures before it.
C19_NonTransientImmediate ==
    (retry.loop.kind = "raise" /\ retry.loop.out.exc.type # "RateLimitError") =>
        /\ retry.calls = retry.loop.attempt + 1
        /\ retry.transient = retry.loop.attempt
        /\ Len(retry.sleeps) = retry.loop.attempt
        /\ now = retry.start + SumSeq(retry.sleeps)
        /\ retry.followups = 0
        /\ rpc = "idle"

\* a non-transient failure on the second attempt, after one backoff
C19_Witness ==
    /\ retry.loop.kind = "raise"
    /\ retry.loop.out.exc.type = "ValueError"
    /\ retry.loop.attempt = 1
    /\ retry.calls = 2
    /\ retry.sleeps = <<2>>

\* C20: when completion returns on attempt i the loop is over: completion has
\* been called i + 1 times in it and is not called in it again, no delay
\* follows, `response` is what that attempt returned, and a run that ends
\* without tool calls returns that response's content.
C20_SuccessEndsLoop ==
    retry.loop.kind = "return" =>
        /\ retry.calls = retry.loop.attempt + 1
        /\ retry.transient = retry.loop.attempt
        /\ Len(retry.sleeps) = retry.loop.attempt
        /\ now = retry.start + SumSeq(retry.sleeps)
        /\ rpc \notin {"completion", "sleep"}
        /\ response = retry.loop.out.value
        /\ (rpc = "idle" /\ ~response.tool_calls) =>
               retry.result = Returned([content |-> retry.loop.out.value.content])

\* a success on the second attempt, after one backoff, returned to the caller
C20_Witness ==
    /\ retry.loop.kind = "return"
    /\ retry.loop.attempt = 1
    /\ retry.sleeps = <<2>>
    /\ rpc = "idle"
    /\ retry.result = Returned([content |-> response.content])

\* C21: a run of the retry loop calls completion at most max_retries times
\* and is over once it has; the attempt counter is 0 at the first call of
\* every run and equals the number of calls the run has made, whatever
\* earlier runs did; with max_retries = 1 one call is made, no delay is taken
\* and a RateLimitError leaves the loop on that call.
C21_BoundedAttempts ==
    /\ retry.calls <= limit
    /\ attempt \in 0..(limit - 1)
    /\ rpc = "completion" => retry.calls = attempt
    /\ rpc = "sleep" => retry.calls = attempt + 1 /\ attempt < limit - 1
    /\ retry.calls = limit => rpc = "idle"
    /\ (limit = 1 /\ retry.calls > 0) =>
          /\ retry.calls = 1
          /\ retry.sleeps = <<>>
          /\ now = retry.start
          /\ rpc = "idle"
          /\ retry.loop.kind \in {"return", "raise"}
          /\ retry.loop.attempt = 0
          /\ retry.transient = 1 => retry.loop.kind = "raise" /\ retry.loop.out.exc.type = "RateLimitError"

\* max_retries = 1 after an earlier run that slept: the one call failed with
\* RateLimitError and the loop was left at once
C21_Witness ==
    /\ limit = 1
    /\ retry.start > 0
    /\ retry.calls = 1
    /\ retry.transient = 1
    /\ retry.loop.kind = "raise"
    /\ retry.sleeps = <<>>
    /\ rpc = "idle"

\* C22: completion(...) is behind a circuit breaker: once failure_threshold
\* of its calls have failed (5, the binding's default, all within the default
\* timeout of 60 s) no further call of it is made, so it never fails more
\* than failure_threshold times in a row.
C22_CompletionFailsFast ==
    now < DefaultTimeout => cfails <= DefaultFailureThreshold

\* C23 as stated: the breaker of a guarded operation changes only in a call
\* of that operation.
C23_OnlyOwnBreakerChanges ==
    [][ \A o \in SnowOps :
          breakers'[o] # breakers[o] => snow'.kind = "call" /\ snow'.op = o
      ]_vars

\* C23 (amended): each guarded operation has its own breaker; a call of
\* connect changes the connect breaker only; a call of a query operation
\* changes its own breaker and, when the client was not connected so that its
\* body called connect(), the connect breaker, and never the breakers of the
\* other two query operations.
C23_OwnAndConnectBreaker ==
    [][ /\ \A o \in SnowOps : breakers[o].name = o
        /\ \A o \in SnowOps :
              breakers'[o] # breakers[o] =>
                  /\ snow'.kind = "call"
                  /\ \/ snow'.op = o
                     \/ /\ o = CONNECT
                        /\ snow'.op \in QueryOps
                        /\ ~connected
                        /\ snow'.invoked = 1
                        /\ snow'.nested # "none"
      ]_vars

\* query_employee_data on a disconnected client whose connect() failed: both
\* breakers counted the failure, the other two did not move
C23_Witness ==
    /\ snow.kind = "call"
    /\ snow.op = QUERY_EMPLOYEE
    /\ snow.nested = "failed"
    /\ snow.own_pre.failure_count = 0
    /\ breakers[QUERY_EMPLOYEE].failure_count = 1
    /\ breakers[CONNECT].failure_count = 1
    /\ breakers[QUERY_DEPT] = SnowBreakers[QUERY_DEPT]
    /\ breakers[UPDATE_LEAVE] = SnowBreakers[UPDATE_LEAVE]

\* the five entries get_state() is to report for breaker b
Snapshot(b) ==
    [ name |-> b.name, state |-> b.state, failure_count |-> b.failure_count,
      threshold |-> b.failure_threshold, last_failure |-> b.last_failure_time ]

\* C24: get_state() returns the breaker's name, state, failure_count,
\* failure_threshold and last_failure_time as they are, and
\* get_connection_status() returns connected and those five entries for the
\* connect and the query_employee_data breakers; neither changes a breaker
\* or the connection.
C24_StatusReadsOnly ==
    [][ /\ (snow' # snow /\ snow'.kind = "get_state") =>
              /\ snow'.value = Snapshot(breakers[snow'.op])
              /\ breakers' = breakers
              /\ connected' = connected
        /\ (snow' # snow /\ snow'.kind = "get_connection_status") =>
              /\ snow'.value.connected = connected
              /\ snow'.value.circuit_breakers.connection = Snapshot(breakers[CONNECT])
              /\ snow'.value.circuit_breakers.query_employee = Snapshot(breakers[QUERY_EMPLOYEE])
              /\ breakers' = breakers
              /\ connected' = connected
      ]_vars

\* the status of a client whose connect breaker is OPEN and whose
\* query_employee_data breaker has counted a failure
C24_Witness ==
    /\ snow.kind = "get_connection_status"
    /\ snow.value.circuit_breakers.connection.state = OPEN
    /\ snow.value.circuit_breakers.connection.failure_count = 3
    /\ snow.value.circuit_breakers.query_employee.failure_count > 0
    /\ breakers[CONNECT].state = OPEN

\* C25: after every recording the gauge of each service is 0, 1 or 2 as the
\* state last recorded for it was 'closed', 'open' or 'half_open', and a
\* recording for one service leaves the gauges of the others as they were.
C25_GaugeFollowsLastState ==
    [][ /\ \A sv \in Services :
              /\ recorded'[sv] = CLOSED => gauges'[sv] = 0
              /\ recorded'[sv] = OPEN => gauges'[sv] = 1
              /\ recorded'[sv] = HALF_OPEN => gauges'[sv] = 2
        /\ \A sv, other \in Services :
              (recorded'[sv] # recorded[sv] /\ other # sv) =>
                  gauges'[other] = gauges[other] /\ recorded'[other] = recorded[other]
      ]_vars

\* three services, each last recorded in a different state
C25_Witness ==
    /\ recorded["snowflake"] = HALF_OPEN /\ gauges["snowflake"] = 2
    /\ recorded["litellm"] = OPEN /\ gauges["litellm"] = 1
    /\ recorded["database"] = CLOSED /\ gauges["database"] = 0

\* C26: DELETE /session/{id} for an id with no stored history answers 404
\* and leaves the sessions as they were; for a stored id it answers 200 and
\* removes that session's history and no other.
C26_DeleteMissingIs404 ==
    reply.kind = "delete" =>
        IF reply.existed
        THEN /\ reply.status = 200
             /\ DOMAIN sessions = DOMAIN reply.pre \ {reply.id}
             /\ \A i \in DOMAIN sessions : sessions[i] = reply.pre[i]
        ELSE /\ reply.status = 404
             /\ sessions = reply.pre

\* C27: a call() rejected by the OPEN breaker changes no field of it, and the
\* call that follows a rejected one is admitted as the trial as soon as
\* timeout has passed since the failure recorded before the rejection: the
\* rejection did not restart the window.
C27_RejectionLeavesBreaker ==
    [][ /\ (hist' # hist /\ hist'.invoked = 0) =>
              /\ cb' = cb
              /\ hist'.result = Raised(BreakerOpenError(cb))
        /\ (hist' # hist /\ Rejected
              /\ now - hist.pre.last_failure_time >= hist.pre.timeout) =>
              /\ hist'.invoked = 1
              /\ hist'.at_invoke = HALF_OPEN
      ]_vars

\* a call rejected some time after the failure that opened the breaker
C27_Witness ==
    /\ Rejected
    /\ hist.pre.state = OPEN
    /\ hist.at > hist.pre.last_failure_time
    /\ cb = hist.pre

\* C28: between calls the breaker is CLOSED or OPEN, never HALF_OPEN, so no
\* call() finds it HALF_OPEN.
C28_HalfOpenNotResting ==
    /\ cb.state \in {CLOSED, OPEN}
    /\ Called => hist.pre.state # HALF_OPEN

\* C31: with failure_threshold >= 1, whenever the breaker is CLOSED its
\* failure_count is below failure_threshold.
C31_ClosedBelowThreshold ==
    (cb.failure_threshold >= 1 /\ cb.state = CLOSED) =>
        cb.failure_count < cb.failure_threshold

\* a classified failure that left the breaker CLOSED, one short of opening
C31_Witness ==
    /\ Called
    /\ Classified(hist)
    /\ hist.pre.state = CLOSED
    /\ cb.state = CLOSED
    /\ cb.failure_count > 0
    /\ cb.failure_count = cb.failure_threshold - 1

\* C32: a breaker that has not been called yet is CLOSED with failure_count 0
\* and no last_failure_time; and at all times last_failure_time is None
\* exactly when failure_count is 0.
C32_StampIffCounted ==
    /\ ~Called => (cb.state = CLOSED /\ cb.failure_count = 0 /\ cb.last_failure_time = None)
    /\ (cb.last_failure_time = None) <=> (cb.failure_count = 0)

\* a successful probe has cleared a count and a timestamp that were both set
C32_Witness ==
    /\ Called
    /\ hist.pre.failure_count > 0
    /\ hist.pre.last_failure_time # None
    /\ cb.failure_count = 0
    /\ cb.last_failure_time = None

\* C33: while CLOSED the breaker counts classified failures cumulatively:
\* after a classified failure of a call made on the CLOSED breaker,
\* failure_count is the number of classified failures since the last reset,
\* whatever calls returned or failed unclassified between them, and the
\* breaker is OPEN exactly when that number has reached failure_threshold.
C33_CumulativeCount ==
    (since.probed /\ Called /\ Classified(hist) /\ hist.pre.state = CLOSED) =>
        /\ cb.failure_count = since.failures
        /\ cb.state = IF since.failures >= cb.failure_threshold THEN OPEN ELSE CLOSED

\* the third classified failure since the reset opens the breaker, a returning
\* call and an unclassified failure having come between the three
C33_Witness ==
    /\ since.probed /\ since.returned /\ since.unclassified
    /\ Called /\ Classified(hist) /\ hist.pre.state = CLOSED
    /\ since.failures = cb.failure_threshold
    /\ cb.failure_threshold = 3
    /\ cb.state = OPEN

\* the latest run of _generate_response is over and its loop's response asked for tools
RanTools ==
    /\ rpc = "idle"
    /\ retry.loop.kind = "return"
    /\ retry.loop.out.value.tool_calls

\* C34: only the completion call of the loop is retried.  The follow-up call
\* made after tool execution is invoked exactly once in a run that executed
\* tools (and not at all in any other); the step that makes it takes no time,
\* sleeps nothing, ends the run, and a rate-limit failure of it leaves the
\* run by the outer except clause like any other exception.
C34_FollowUpNotRetried ==
    [][ /\ retry'.followups <= 1
        /\ RanTools' => retry'.followups = 1
        /\ retry'.followups > retry.followups =>
              /\ now' = now
              /\ retry'.sleeps = retry.sleeps
              /\ retry'.calls = retry.calls
              /\ rpc' = "idle"
              /\ retry'.follow.kind = "raise" => retry'.result = Unwind(retry'.follow.exc)
      ]_vars

\* the loop's call was rate-limited once and retried after a sleep; the
\* follow-up call was rate-limited and the run ended there
C34_Witness ==
    /\ RanTools
    /\ retry.transient = 1 /\ retry.calls = 2 /\ retry.sleeps = <<WaitTime(0)>>
    /\ retry.followups = 1
    /\ retry.follow = Raised(OpFailure("RateLimitError"))
    /\ now = retry.start + WaitTime(0)

\* the history the latest chat() found for its session_id
FoundHistory ==
    IF reply.existed THEN reply.pre[reply.id] ELSE <<"system">>

\* a user message with blocked content is in the history
HoldsBlockedMessage(history) ==
    \E k \in 1..Len(history) : history[k] = "user_blocked"

\* no message of the history has blocked content
Clean(history) ==
    \A k \in 1..Len(history) : history[k] \in {"system", "user", "assistant"}

\* C35: a chat() whose message has blocked content, or whose session already
\* holds such a message, is answered as blocked without the model being
\* invoked, and its message is stored after the history found; clear_session
\* removes the session, and a chat() with a harmless message on a session
\* that is new or holds nothing blocked reaches the model; no request changes
\* the history of another session.
C35_BlockedSessionStaysBlocked ==
    /\ reply.kind = "chat" =>
          /\ (reply.text = "user_blocked" \/ HoldsBlockedMessage(FoundHistory)) =>
                /\ reply.blocked
                /\ ~reply.generated
                /\ sessions[reply.id] = Append(FoundHistory, reply.text)
          /\ (reply.text = "user" /\ Clean(FoundHistory)) =>
                /\ ~reply.blocked
                /\ reply.generated
    /\ reply.kind = "delete" => reply.id \notin DOMAIN sessions
    /\ reply.kind \in {"chat", "delete"} =>
          \A i \in SessionIds \ {reply.id} :
              /\ i \in DOMAIN sessions <=> i \in DOMAIN reply.pre
              /\ i \in DOMAIN sessions => sessions[i] = reply.pre[i]

\* the second harmless message after a blocked one is answered as blocked,
\* while the other session holds an answer of the model
C35_Witness ==
    /\ reply.kind = "chat" /\ reply.existed /\ reply.text = "user"
    /\ HoldsBlockedMessage(FoundHistory)
    /\ FoundHistory[Len(FoundHistory)] = "user"
    /\ reply.blocked
    /\ \E i \in DOMAIN sessions \ {reply.id} :
          sessions[i][Len(sessions[i])] = "assistant"

\* C36: counted from a new AfterModelCallback, total_calls and response_count
\* are the number of invocations, total_tokens is the sum of the responses'
\* usage.total_tokens (0 for a response without usage), and error_count is at
\* most total_calls.
C36_CountersMatchInvocations ==
    LET stats == GetStats(after) IN
    /\ stats.total_calls = fed.invocations
    /\ stats.response_count = fed.invocations
    /\ stats.total_tokens = fed.tokens
    /\ stats.error_count <= stats.total_calls

ClosingStep ==
    /\ hist' # hist
    /\ hist'.at_invoke = HALF_OPEN
    /\ hist'.out.kind = "return"
    /\ cb'.state = CLOSED
    /\ cb'.failure_count = 0

\* C12: failure_count decreases only in the step in which a successful probe
\* moves the breaker from HALF_OPEN to CLOSED, and then to 0; a call() whose
\* function returns while the breaker is CLOSED changes nothing of the breaker.
C12_CountOnlyClearedByProbe ==
    [][ /\ cb'.failure_count < cb.failure_count => ClosingStep
        /\ (hist' # hist /\ cb.state = CLOSED /\ hist'.out.kind = "return") => cb' = cb
      ]_vars

C12_Witness ==
    /\ Called
    /\ hist.pre.state = CLOSED
    /\ hist.pre.failure_count > 0
    /\ hist.out.kind = "return"
    /\ cb = hist.pre

-----------------------------------------------------------------------------
(* Properties of one breaker called by several threads (ConcSpec) *)

\* the threads whose function is running, admitted with the breaker HALF_OPEN
Probing == {t \in Threads : pc[t] = "running" /\ loc[t].admitted = HALF_OPEN}

\* C7: of the callers of a breaker that is OPEN and timed out, at most one is
\* admitted as the HALF_OPEN probe: never two functions run as probes at once.
C7_SingleProbe == Cardinality(Probing) <= 1

\* C8: no increment is lost: failure_count equals the number of times
\* `failure_count += 1` has run since the counter was last reset.
C8_NoLostIncrement ==
    (\A t \in Threads : pc[t] \notin {"reset_stamp", "reset_state"}) =>
        cb.failure_count = increments

\* C29: under every interleaving an OPEN breaker has a last_failure_time, so
\* line 79 never subtracts None; in particular it is never OPEN with
\* failure_count 0 and no timestamp.
C29_OpenHasTimestamp ==
    cb.state = OPEN => cb.last_failure_time # None

\* C30: only the caller admitted as the probe (by line 81) goes on to _reset
\* when its function returns; a caller admitted while the breaker was CLOSED
\* does not.
C30_OnlyProbeResets ==
    [][ \A t \in Threads :
          (pc[t] = "running" /\ pc'[t] = "reset_count") => loc[t].admitted = HALF_OPEN
      ]_vars

-----------------------------------------------------------------------------
(* Properties of the SnowflakeClient (SnowSpec) *)

\* C10: when a query method calls connect and connect's breaker rejects the
\* call because it is OPEN, the query method's own breaker does not count that
\* rejection: its failure_count and state stay as they were.
C10_RejectionNotCounted ==
    (snow.kind = "call" /\ snow.op \in QueryOps /\ snow.nested = "rejected") =>
        /\ breakers[snow.op].failure_count = snow.own_pre.failure_count
        /\ breakers[snow.op].state = snow.own_pre.state

====
